---- MODULE Spec2Model ----
(***************************************************************************)
(* rust_strings: palindrome check, reversal and the delimiter-splitting    *)
(* family (src/src/lib.rs, src/src/splits.rs).                             *)
(*                                                                         *)
(* A text (&str / String) is modelled as what it is in memory: a sequence  *)
(* of UTF-8 bytes.  A char is its scalar value.  Byte offsets are 0-based  *)
(* as in the source; TLA+ sequences are 1-based, so byte offset i is       *)
(* element i + 1.  Slicing checks its bounds the way str indexing does     *)
(* and a failed check is a panic, which ends the call.                     *)
(***************************************************************************)
EXTENDS Integers, Sequences, FiniteSets, TLC

(***************************************************************************)
(* Bounds of the model.                                                    *)
(***************************************************************************)
MaxLen == 3
MaxDelims == 2
MaxN == 4

\* The scalar values texts and delimiters are drawn from:
\*   ','  U+002C  1 byte, not alphanumeric
\*   'A'  U+0041  1 byte, ASCII upper case
\*   'a'  U+0061  1 byte, ASCII lower case
\*   'É'  U+00C9  2 bytes, upper case of U+00E9
\*   'é'  U+00E9  2 bytes
\*   '世' U+4E16  3 bytes, alphanumeric, uncased
Chars == {44, 65, 97, 201, 233, 19990}

(***************************************************************************)
(* UTF-8, as the standard library encodes and decodes it.                  *)
(***************************************************************************)
\* char::len_utf8
len_utf8(c) == IF c < 128 THEN 1 ELSE IF c < 2048 THEN 2 ELSE 3

\* the bytes String::push / collect::<String>() writes for one char
encode_utf8(c) ==
    IF c < 128 THEN <<c>>
    ELSE IF c < 2048 THEN <<192 + (c \div 64), 128 + (c % 64)>>
    ELSE <<224 + (c \div 4096), 128 + ((c \div 64) % 64), 128 + (c % 64)>>

\* Iterator<Item = char>::collect::<String>()
RECURSIVE collect(_)
collect(cs) ==
    IF cs = <<>> THEN <<>> ELSE encode_utf8(Head(cs)) \o collect(Tail(cs))

\* a UTF-8 continuation byte (10xxxxxx)
IsContinuation(b) == b >= 128 /\ b < 192

\* width of the scalar value whose first byte is b
WidthOfLead(b) == IF b < 128 THEN 1 ELSE IF b < 224 THEN 2 ELSE 3

\* the scalar value encoded by the bytes of s starting at byte offset i
DecodeAt(s, i) ==
    LET b == s[i + 1]
    IN  IF b < 128 THEN b
        ELSE IF b < 224 THEN (b - 192) * 64 + (s[i + 2] - 128)
        ELSE (b - 224) * 4096 + (s[i + 2] - 128) * 64 + (s[i + 3] - 128)

\* str::char_indices: the sequence of <<byte offset, char>> from offset i on
RECURSIVE char_indices_from(_, _)
char_indices_from(s, i) ==
    IF i >= Len(s) THEN <<>>
    ELSE <<[i |-> i, c |-> DecodeAt(s, i)]>>
         \o char_indices_from(s, i + WidthOfLead(s[i + 1]))

char_indices(s) == char_indices_from(s, 0)

\* str::chars
chars(s) == LET ci == char_indices(s) IN [k \in 1..Len(ci) |-> ci[k].c]

\* str::is_char_boundary
is_char_boundary(s, idx) ==
    \/ idx = 0
    \/ idx = Len(s)
    \/ idx > 0 /\ idx < Len(s) /\ ~IsContinuation(s[idx + 1])

\* &s[begin..end]: panics unless begin <= end and both lie on char boundaries
SliceFails(s, begin, end) ==
    \/ begin > end
    \/ ~is_char_boundary(s, begin)
    \/ ~is_char_boundary(s, end)

Slice(s, begin, end) == SubSeq(s, begin + 1, end)

\* Vec::retain(|item| !item.is_empty())
RECURSIVE retain_non_empty(_)
retain_non_empty(v) ==
    IF v = <<>> THEN <<>>
    ELSE IF Head(v) = <<>> THEN retain_non_empty(Tail(v))
    ELSE <<Head(v)>> \o retain_non_empty(Tail(v))

\* the result of a call: the returned value, or a panic
Ok(v) == [panic |-> FALSE, val |-> v]
Panic == [panic |-> TRUE, val |-> <<>>]

(***************************************************************************)
(* split_on_delimiters (splits.rs:42-58).  The scan state is the three     *)
(* locals the loops update: output, start, and whether a slice panicked.   *)
(***************************************************************************)
\* lines 46-51: the inner loop over the delimiters for one (i, c); ds is the
\* part of the delimiter slice not yet visited
RECURSIVE sod_each_delimiter(_, _, _, _)
sod_each_delimiter(input_string, e, ds, st) ==
    IF st.panic \/ ds = <<>> THEN st
    ELSE IF e.c = Head(ds)
    THEN IF SliceFails(input_string, st.start, e.i)
         THEN [st EXCEPT !.panic = TRUE]
         ELSE sod_each_delimiter(input_string, e, Tail(ds),
                  [output |-> Append(st.output, Slice(input_string, st.start, e.i)),
                   start  |-> e.i + len_utf8(e.c),
                   panic  |-> FALSE])
    ELSE sod_each_delimiter(input_string, e, Tail(ds), st)

\* lines 45-52: the outer loop over input_string.char_indices()
RECURSIVE sod_each_char(_, _, _, _)
sod_each_char(input_string, ci, delimiters, st) ==
    IF st.panic \/ ci = <<>> THEN st
    ELSE sod_each_char(input_string, Tail(ci), delimiters,
             sod_each_delimiter(input_string, Head(ci), delimiters, st))

\* lines 53-57 without the retain: the variant that keeps empty segments
split_on_delimiters_no_retain(input_string, delimiters) ==
    LET st == sod_each_char(input_string, char_indices(input_string), delimiters,
                            [output |-> <<>>, start |-> 0, panic |-> FALSE])
    IN  IF st.panic THEN Panic
        ELSE IF st.start < Len(input_string)
        THEN Ok(Append(st.output, Slice(input_string, st.start, Len(input_string))))
        ELSE Ok(st.output)

split_on_delimiters(input_string, delimiters) ==
    LET st == sod_each_char(input_string, char_indices(input_string), delimiters,
                            [output |-> <<>>, start |-> 0, panic |-> FALSE])
    IN  IF st.panic THEN Panic
        ELSE IF st.start < Len(input_string)
        THEN IF SliceFails(input_string, st.start, Len(input_string))
             THEN Panic
             ELSE Ok(retain_non_empty(
                      Append(st.output, Slice(input_string, st.start, Len(input_string)))))
        ELSE Ok(retain_non_empty(st.output))

(***************************************************************************)
(* split_on_delimiters_returns_owned (splits.rs:79-95).                    *)
(***************************************************************************)
\* str::to_owned / String::from: a fresh String holding a copy of the bytes
to_owned(s) == SubSeq(s, 1, Len(s))

\* str::parse::<String>().unwrap(): FromStr for String never fails and copies
parse_unwrap(s) == to_owned(s)

RECURSIVE sodo_each_delimiter(_, _, _, _)
sodo_each_delimiter(s, e, ds, st) ==
    IF st.panic \/ ds = <<>> THEN st
    ELSE IF e.c = Head(ds)
    THEN IF SliceFails(s, st.start, e.i)
         THEN [st EXCEPT !.panic = TRUE]
         ELSE sodo_each_delimiter(s, e, Tail(ds),
                  [output |-> Append(st.output,
                                     parse_unwrap(to_owned(Slice(s, st.start, e.i)))),
                   start  |-> e.i + len_utf8(e.c),
                   panic  |-> FALSE])
    ELSE sodo_each_delimiter(s, e, Tail(ds), st)

RECURSIVE sodo_each_char(_, _, _, _)
sodo_each_char(s, ci, delimiters, st) ==
    IF st.panic \/ ci = <<>> THEN st
    ELSE sodo_each_char(s, Tail(ci), delimiters,
             sodo_each_delimiter(s, Head(ci), delimiters, st))

\* the variant that forgets the trailing segment of lines 90-92
split_on_delimiters_returns_owned_no_tail(s, delimiters) ==
    LET st == sodo_each_char(s, char_indices(s), delimiters,
                             [output |-> <<>>, start |-> 0, panic |-> FALSE])
    IN  IF st.panic THEN Panic ELSE Ok(retain_non_empty(st.output))

split_on_delimiters_returns_owned(s, delimiters) ==
    LET st == sodo_each_char(s, char_indices(s), delimiters,
                             [output |-> <<>>, start |-> 0, panic |-> FALSE])
    IN  IF st.panic THEN Panic
        ELSE IF st.start < Len(s)
        THEN IF SliceFails(s, st.start, Len(s))
             THEN Panic
             ELSE Ok(retain_non_empty(
                      Append(st.output, parse_unwrap(Slice(s, st.start, Len(s))))))
        ELSE Ok(retain_non_empty(st.output))

(***************************************************************************)
(* split_keeping_delimiter (splits.rs:136-146) and its owned form          *)
(* (splits.rs:167-177).  s[start..=i] is s[start..i + 1].                  *)
(***************************************************************************)
RECURSIVE skd_each_char(_, _, _, _)
skd_each_char(s, ci, delimiter, st) ==
    IF st.panic \/ ci = <<>> THEN st
    ELSE LET e == Head(ci)
         IN  IF e.c = delimiter
             THEN IF SliceFails(s, st.start, e.i + 1)
                  THEN [st EXCEPT !.panic = TRUE]
                  ELSE skd_each_char(s, Tail(ci), delimiter,
                           [output |-> Append(st.output, Slice(s, st.start, e.i + 1)),
                            start  |-> e.i + 1,
                            panic  |-> FALSE])
             ELSE skd_each_char(s, Tail(ci), delimiter, st)

split_keeping_delimiter(s, delimiter) ==
    LET st == skd_each_char(s, char_indices(s), delimiter,
                            [output |-> <<>>, start |-> 0, panic |-> FALSE])
    IN  IF st.panic THEN Panic ELSE Ok(st.output)

RECURSIVE skdo_each_char(_, _, _, _)
skdo_each_char(input_string, ci, delimiter, st) ==
    IF st.panic \/ ci = <<>> THEN st
    ELSE LET e == Head(ci)
         IN  IF e.c = delimiter
             THEN IF SliceFails(input_string, st.start, e.i + 1)
                  THEN [st EXCEPT !.panic = TRUE]
                  ELSE skdo_each_char(input_string, Tail(ci), delimiter,
                           [output |-> Append(st.output,
                                              to_owned(Slice(input_string, st.start, e.i + 1))),
                            start  |-> e.i + 1,
                            panic  |-> FALSE])
             ELSE skdo_each_char(input_string, Tail(ci), delimiter, st)

split_keeping_delimiter_returns_owned(input_string, delimiter) ==
    LET st == skdo_each_char(input_string, char_indices(input_string), delimiter,
                             [output |-> <<>>, start |-> 0, panic |-> FALSE])
    IN  IF st.panic THEN Panic ELSE Ok(st.output)

(***************************************************************************)
(* split_into_n_parts (splits.rs:216-231) and its owned form               *)
(* (splits.rs:278-300), with the standard library iterators they collect.  *)
(***************************************************************************)
\* the char searcher of str::split / str::splitn: the byte offset of the
\* first occurrence of delimiter at or after byte offset from, or -1
RECURSIVE next_match(_, _, _)
next_match(s, delimiter, from) ==
    IF from >= Len(s) THEN -1
    ELSE IF DecodeAt(s, from) = delimiter THEN from
    ELSE next_match(s, delimiter, from + WidthOfLead(s[from + 1]))

\* the variant of split_from that behaves as str::split_terminator: an empty
\* piece after the last match is not produced
RECURSIVE split_from_terminator(_, _, _)
split_from_terminator(s, delimiter, start) ==
    LET m == next_match(s, delimiter, start)
    IN  IF m = -1
        THEN IF start = Len(s) THEN <<>> ELSE <<Slice(s, start, Len(s))>>
        ELSE <<Slice(s, start, m)>>
             \o split_from_terminator(s, delimiter, m + len_utf8(delimiter))

\* str::split(delimiter) from byte offset start on: every piece between
\* matches, the piece after the last match included even when it is empty
RECURSIVE split_from(_, _, _)
split_from(s, delimiter, start) ==
    LET m == next_match(s, delimiter, start)
    IN  IF m = -1 THEN <<Slice(s, start, Len(s))>>
        ELSE <<Slice(s, start, m)>> \o split_from(s, delimiter, m + len_utf8(delimiter))

\* input_string.split(delimiter).collect()
split(s, delimiter) == split_from(s, delimiter, 0)

\* str::splitn(count, delimiter) from byte offset start on: nothing when
\* count is 0, the whole remainder when count is 1, else one piece and the
\* rest with count - 1
RECURSIVE splitn_from(_, _, _, _)
splitn_from(s, delimiter, start, count) ==
    IF count = 0 THEN <<>>
    ELSE IF count = 1 THEN <<Slice(s, start, Len(s))>>
    ELSE LET m == next_match(s, delimiter, start)
         IN  IF m = -1 THEN <<Slice(s, start, Len(s))>>
             ELSE <<Slice(s, start, m)>>
                  \o splitn_from(s, delimiter, m + len_utf8(delimiter), count - 1)

\* the variant of splitn that cuts at every match and keeps the first n
\* pieces, so the last piece does not absorb the rest of the text
splitn_truncating(n, s, delimiter) ==
    SubSeq(split(s, delimiter), 1, n)

\* input_string.splitn(n, delimiter).collect()
splitn(n, s, delimiter) == splitn_from(s, delimiter, 0, n)

\* Iterator::map(String::from) over the collected pieces
map_String_from(v) == [k \in DOMAIN v |-> to_owned(v[k])]

\* input_string.chars().filter(|&x| x == delimiter).count() + 1
count_expect_segments(input_string, delimiter) ==
    Cardinality({k \in DOMAIN chars(input_string) : chars(input_string)[k] = delimiter}) + 1

\* the variant of push_empty in which the increment of line 225 moves the
\* loop on, so that every second index of the range is skipped
RECURSIVE push_empty_stepping(_, _, _)
push_empty_stepping(output, from, to) ==
    IF from >= to THEN output
    ELSE push_empty_stepping(Append(output, <<>>), from + 2, to)

\* for mut i in from..to { output.push(""); i += 1; }: the range drives the
\* loop, the increment of the loop variable's copy changes nothing
RECURSIVE push_empty(_, _, _)
push_empty(output, from, to) ==
    IF from >= to THEN output
    ELSE push_empty(Append(output, <<>>), from + 1, to)

split_into_n_parts(input_string, delimiter, n) ==
    LET count == count_expect_segments(input_string, delimiter)
    IN  IF count = n THEN Ok(split(input_string, delimiter))
        ELSE IF count < n
        THEN Ok(push_empty(split(input_string, delimiter), count, n))
        ELSE Ok(splitn(n, input_string, delimiter))

split_into_n_parts_returns_owned(input_string, delimiter, n) ==
    LET count == count_expect_segments(input_string, delimiter)
    IN  IF count = n THEN Ok(map_String_from(split(input_string, delimiter)))
        ELSE IF count < n
        THEN Ok(push_empty(map_String_from(split(input_string, delimiter)), count, n))
        ELSE Ok(map_String_from(splitn(n, input_string, delimiter)))

(***************************************************************************)
(* string_reverse (lib.rs:37-39) and check_for_palindrome (lib.rs:13-17).  *)
(***************************************************************************)
\* Iterator::rev over the chars
rev(cs) == [k \in 1..Len(cs) |-> cs[Len(cs) + 1 - k]]

\* the variant of string_reverse that reverses s.bytes() and reads every byte
\* as a char
string_reverse_bytes(s) == collect(rev(s))

string_reverse(s) == collect(rev(chars(s)))

\* char::is_alphanumeric: the ASCII digits and letters, and of the scalar
\* values above U+007F the letters U+00C9, U+00E9 and U+4E16
is_alphanumeric(c) ==
    \/ c >= 48 /\ c <= 57
    \/ c >= 65 /\ c <= 90
    \/ c >= 97 /\ c <= 122
    \/ c \in {201, 233, 19990}

\* Iterator::filter over a sequence of chars
RECURSIVE filter_alphanumeric(_)
filter_alphanumeric(cs) ==
    IF cs = <<>> THEN <<>>
    ELSE IF is_alphanumeric(Head(cs))
    THEN <<Head(cs)>> \o filter_alphanumeric(Tail(cs))
    ELSE filter_alphanumeric(Tail(cs))

\* u8::to_ascii_lowercase: only the bytes b'A'..=b'Z' change
to_ascii_lowercase(b) == IF b >= 65 /\ b <= 90 THEN b + 32 ELSE b

\* str::eq_ignore_ascii_case: byte strings of one length whose bytes agree
\* after to_ascii_lowercase
eq_ignore_ascii_case(a, b) ==
    /\ Len(a) = Len(b)
    /\ \A k \in 1..Len(a) : to_ascii_lowercase(a[k]) = to_ascii_lowercase(b[k])

check_for_palindrome(s) ==
    LET cleaned  == collect(filter_alphanumeric(chars(s)))
        reversed == string_reverse(cleaned)
    IN  eq_ignore_ascii_case(cleaned, reversed)

(***************************************************************************)
(* The library as a state machine: a caller holds a text and makes one     *)
(* call on it; string_reverse may be called again on its own result.       *)
(***************************************************************************)
VARIABLES
    input,       \* the text the caller passes
    delimiters,  \* the delimiter slice passed to split_on_delimiters*
    delimiter,   \* the delimiter char passed to the other split functions
    n,           \* the target count passed to split_into_n_parts*
    op,          \* the function called, "none" before the call
    result,      \* what a split function returned: Ok(segments) or Panic
    palindrome,  \* what check_for_palindrome returned
    text,        \* the text string_reverse is applied to and returns
    flips        \* the number of string_reverse calls made so far, mod 2

vars == <<input, delimiters, delimiter, n, op, result, palindrome, text, flips>>

\* every sequence of at most m elements of S
SeqsUpTo(S, m) == UNION {[1..k -> S] : k \in 0..m}

\* the well-formed texts of at most MaxLen scalar values
Texts == {collect(cs) : cs \in SeqsUpTo(Chars, MaxLen)}

\* the scalar values delimiter slices are built from: one byte and not
\* alphanumeric, one byte and a letter, two bytes
DelimiterChars == {44, 97, 233}

\* the delimiter slices a caller passes, repeated entries allowed
DelimiterLists == SeqsUpTo(DelimiterChars, MaxDelims)

Init ==
    /\ input \in Texts
    /\ delimiters = <<>>
    /\ delimiter = 44
    /\ n = 0
    /\ op = "none"
    /\ result = Ok(<<>>)
    /\ palindrome = FALSE
    /\ text = input
    /\ flips = 0

SplitOnDelimiters ==
    /\ op = "none"
    /\ \E ds \in DelimiterLists :
          /\ delimiters' = ds
          /\ result' = split_on_delimiters(input, ds)
    /\ op' = "split_on_delimiters"
    /\ UNCHANGED <<input, delimiter, n, palindrome, text, flips>>

SplitOnDelimitersReturnsOwned ==
    /\ op = "none"
    /\ \E ds \in DelimiterLists :
          /\ delimiters' = ds
          /\ result' = split_on_delimiters_returns_owned(input, ds)
    /\ op' = "split_on_delimiters_returns_owned"
    /\ UNCHANGED <<input, delimiter, n, palindrome, text, flips>>

SplitKeepingDelimiter ==
    /\ op = "none"
    /\ \E d \in Chars :
          /\ delimiter' = d
          /\ result' = split_keeping_delimiter(input, d)
    /\ op' = "split_keeping_delimiter"
    /\ UNCHANGED <<input, delimiters, n, palindrome, text, flips>>

SplitKeepingDelimiterReturnsOwned ==
    /\ op = "none"
    /\ \E d \in Chars :
          /\ delimiter' = d
          /\ result' = split_keeping_delimiter_returns_owned(input, d)
    /\ op' = "split_keeping_delimiter_returns_owned"
    /\ UNCHANGED <<input, delimiters, n, palindrome, text, flips>>

SplitIntoNParts ==
    /\ op = "none"
    /\ \E d \in Chars, k \in 0..MaxN :
          /\ delimiter' = d
          /\ n' = k
          /\ result' = split_into_n_parts(input, d, k)
    /\ op' = "split_into_n_parts"
    /\ UNCHANGED <<input, delimiters, palindrome, text, flips>>

SplitIntoNPartsReturnsOwned ==
    /\ op = "none"
    /\ \E d \in Chars, k \in 0..MaxN :
          /\ delimiter' = d
          /\ n' = k
          /\ result' = split_into_n_parts_returns_owned(input, d, k)
    /\ op' = "split_into_n_parts_returns_owned"
    /\ UNCHANGED <<input, delimiters, palindrome, text, flips>>

CheckForPalindrome ==
    /\ op = "none"
    /\ palindrome' = check_for_palindrome(input)
    /\ op' = "check_for_palindrome"
    /\ UNCHANGED <<input, delimiters, delimiter, n, result, text, flips>>

StringReverse ==
    /\ op \in {"none", "string_reverse"}
    /\ text' = string_reverse(text)
    /\ flips' = 1 - flips
    /\ op' = "string_reverse"
    /\ UNCHANGED <<input, delimiters, delimiter, n, result, palindrome>>

Next ==
    \/ SplitOnDelimiters
    \/ SplitOnDelimitersReturnsOwned
    \/ SplitKeepingDelimiter
    \/ SplitKeepingDelimiterReturnsOwned
    \/ SplitIntoNParts
    \/ SplitIntoNPartsReturnsOwned
    \/ CheckForPalindrome
    \/ StringReverse

Spec == Init /\ [][Next]_vars

(***************************************************************************)
(* Reference notions the properties are stated with.  They are defined on  *)
(* sequences of scalar values, not on bytes.                               *)
(***************************************************************************)
Range(f) == {f[k] : k \in DOMAIN f}

\* the byte texts of a sequence of scalar-value sequences
CollectAll(css) == [k \in 1..Len(css) |-> collect(css[k])]

\* the concatenation of a sequence of sequences
RECURSIVE Concat(_)
Concat(ss) == IF ss = <<>> THEN <<>> ELSE Head(ss) \o Concat(Tail(ss))

\* the segments joined with sep between each two
RECURSIVE Join(_, _)
Join(ss, sep) ==
    IF ss = <<>> THEN <<>>
    ELSE IF Len(ss) = 1 THEN Head(ss)
    ELSE Head(ss) \o sep \o Join(Tail(ss), sep)

\* cs without its members of D
RECURSIVE Without(_, _)
Without(cs, D) ==
    IF cs = <<>> THEN <<>>
    ELSE IF Head(cs) \in D THEN Without(Tail(cs), D)
    ELSE <<Head(cs)>> \o Without(Tail(cs), D)

\* the maximal runs of consecutive scalar values of cs outside D, left to
\* right; cur is the run being read
RECURSIVE MaximalRuns(_, _, _)
MaximalRuns(cs, D, cur) ==
    IF cs = <<>> THEN (IF cur = <<>> THEN <<>> ELSE <<cur>>)
    ELSE IF Head(cs) \in D
    THEN (IF cur = <<>> THEN <<>> ELSE <<cur>>) \o MaximalRuns(Tail(cs), D, <<>>)
    ELSE MaximalRuns(Tail(cs), D, Append(cur, Head(cs)))

\* the ordinary split of cs on d: the pieces between occurrences of d, empty
\* pieces kept; cur is the piece being read
RECURSIVE OrdinarySplit(_, _, _)
OrdinarySplit(cs, d, cur) ==
    IF cs = <<>> THEN <<cur>>
    ELSE IF Head(cs) = d THEN <<cur>> \o OrdinarySplit(Tail(cs), d, <<>>)
    ELSE OrdinarySplit(Tail(cs), d, Append(cur, Head(cs)))

\* one piece per occurrence of d, each ending with that occurrence; what
\* follows the last occurrence is dropped
RECURSIVE PiecesEndingWith(_, _, _)
PiecesEndingWith(cs, d, cur) ==
    IF cs = <<>> THEN <<>>
    ELSE IF Head(cs) = d
    THEN <<Append(cur, d)>> \o PiecesEndingWith(Tail(cs), d, <<>>)
    ELSE PiecesEndingWith(Tail(cs), d, Append(cur, Head(cs)))

\* the positions of d in cs, and their number
Occurrences(cs, d) == {k \in 1..Len(cs) : cs[k] = d}
NumOccurrences(cs, d) == Cardinality(Occurrences(cs, d))

\* the position of the j-th occurrence of d in cs; 0 for j = 0
NthOccurrence(cs, d, j) ==
    IF j = 0 THEN 0
    ELSE CHOOSE k \in Occurrences(cs, d) :
             Cardinality({i \in Occurrences(cs, d) : i <= k}) = j

\* ds with every entry that repeats an earlier one removed
RECURSIVE Dedup(_, _)
Dedup(ds, seen) ==
    IF ds = <<>> THEN <<>>
    ELSE IF Head(ds) \in seen THEN Dedup(Tail(ds), seen)
    ELSE <<Head(ds)>> \o Dedup(Tail(ds), seen \cup {Head(ds)})

NoRepeats(ds) == Cardinality(Range(ds)) = Len(ds)

\* the lower-case form of a scalar value: the ASCII capitals and the
\* Latin-1 capitals U+00C0..U+00DE (U+00D7 is the multiplication sign)
LowerCase(c) ==
    IF c >= 65 /\ c <= 90 THEN c + 32
    ELSE IF c >= 192 /\ c <= 222 /\ c # 215 THEN c + 32
    ELSE c

IsReversalOf(a, b) ==
    /\ Len(a) = Len(b)
    /\ \A k \in 1..Len(a) : a[k] = b[Len(b) + 1 - k]

SplitOps ==
    {"split_on_delimiters", "split_on_delimiters_returns_owned",
     "split_keeping_delimiter", "split_keeping_delimiter_returns_owned",
     "split_into_n_parts", "split_into_n_parts_returns_owned"}

(***************************************************************************)
(* Properties.                                                             *)
(***************************************************************************)

\* C1: split_into_n_parts(T, d, n) returns exactly n segments, for every
\* text T, every delimiter d and every n >= 0 (n = 0, n = 1 and n larger
\* than the length of T included).
C1_ExactlyNSegments ==
    op = "split_into_n_parts" =>
        /\ ~result.panic
        /\ Len(result.val) = n

\* a call that had to pad: n exceeds the length of a non-empty text
C1_Witness ==
    /\ op = "split_into_n_parts"
    /\ input # <<>>
    /\ n > Len(input)
    /\ NumOccurrences(chars(input), delimiter) >= 1
    /\ Len(result.val) = n

\* C2: no splitting function can fail: each of the six splitting functions
\* completes and returns a result for every text, every delimiter or
\* delimiter list and every n; no call panics on a slice bound.
C2_NoSplitFails ==
    op \in SplitOps => ~result.panic

\* C3: repeated entries in the delimiter list do not change what
\* split_on_delimiters does: split_on_delimiters(T, L) returns what
\* split_on_delimiters(T, L') returns, L' being L without its repeats.
C3_RepeatsChangeNothing ==
    op = "split_on_delimiters" =>
        result = split_on_delimiters(input, Dedup(delimiters, {}))

\* C4: for a list D of distinct delimiters, split_on_delimiters(T, D)
\* returns, left to right, exactly the maximal runs of non-delimiter scalar
\* values of T: no segment is empty, no segment holds a member of D, the
\* segments concatenated are T without its members of D; an empty D gives
\* the single segment T, or no segment when T is empty.
C4_MaximalRuns ==
    (op = "split_on_delimiters" /\ NoRepeats(delimiters)) =>
        LET cs == chars(input)
            D  == Range(delimiters)
        IN  /\ ~result.panic
            /\ result.val = CollectAll(MaximalRuns(cs, D, <<>>))
            /\ \A k \in 1..Len(result.val) :
                  /\ result.val[k] # <<>>
                  /\ Range(chars(result.val[k])) \cap D = {}
            /\ Concat(result.val) = collect(Without(cs, D))
            /\ D = {} => result.val = (IF input = <<>> THEN <<>> ELSE <<input>>)

\* two distinct delimiters, both in the text, next to each other or at an
\* end, so that empty pieces were cut and removed
C4_Witness ==
    /\ op = "split_on_delimiters"
    /\ Len(delimiters) = 2
    /\ NoRepeats(delimiters)
    /\ Range(delimiters) \subseteq Range(chars(input))
    /\ Len(chars(input)) = 3
    /\ Len(result.val) = 1

\* C5: split_keeping_delimiter(T, d) returns one segment per occurrence of
\* d in T, for a delimiter of any encoded width: the k-th segment runs from
\* just after the (k-1)-th occurrence (or the start of T) up to and
\* including the k-th, text after the last occurrence is not returned, and
\* the result is empty when d does not occur in T.
C5_OneSegmentPerOccurrence ==
    op = "split_keeping_delimiter" =>
        /\ ~result.panic
        /\ result.val = CollectAll(PiecesEndingWith(chars(input), delimiter, <<>>))

\* C6: for n >= c, c the number of occurrences of d in T plus one,
\* split_into_n_parts(T, d, n) is the ordinary split of T on d (all c
\* pieces, empty ones kept, none merged) followed by exactly n - c empty
\* segments; for n = c it is the ordinary split alone.
C6_OrdinarySplitThenPadding ==
    LET cs == chars(input)
        c  == NumOccurrences(cs, delimiter) + 1
    IN  (op = "split_into_n_parts" /\ n >= c) =>
            /\ ~result.panic
            /\ result.val = CollectAll(OrdinarySplit(cs, delimiter, <<>>))
                               \o [k \in 1..(n - c) |-> <<>>]

\* a padded call whose ordinary split ends with an empty piece
C6_Witness ==
    LET cs == chars(input)
        c  == NumOccurrences(cs, delimiter) + 1
    IN  /\ op = "split_into_n_parts"
        /\ c >= 2
        /\ n > c
        /\ cs[Len(cs)] = delimiter
        /\ Len(result.val) = n

\* C7: for 1 <= n < c, split_into_n_parts(T, d, n) cuts at the first n - 1
\* occurrences of d only: the first n - 1 segments are those of the
\* ordinary split and hold no d, the last segment is all of T after the
\* (n-1)-th occurrence, later occurrences of d included, and the n segments
\* joined with d are T.
C7_LastSegmentAbsorbsRest ==
    LET cs  == chars(input)
        c   == NumOccurrences(cs, delimiter) + 1
        ord == OrdinarySplit(cs, delimiter, <<>>)
        cut == NthOccurrence(cs, delimiter, n - 1)
    IN  (op = "split_into_n_parts" /\ 1 <= n /\ n < c) =>
            /\ ~result.panic
            /\ Len(result.val) = n
            /\ \A k \in 1..(n - 1) :
                  /\ result.val[k] = collect(ord[k])
                  /\ delimiter \notin Range(chars(result.val[k]))
            /\ result.val[n] = collect(SubSeq(cs, cut + 1, Len(cs)))
            /\ Join(result.val, encode_utf8(delimiter)) = input

\* a call that cut once and left a further delimiter in its last segment
C7_Witness ==
    /\ op = "split_into_n_parts"
    /\ n = 2
    /\ NumOccurrences(chars(input), delimiter) + 1 > n
    /\ Len(result.val) = 2
    /\ delimiter \in Range(chars(result.val[2]))

\* C8: each owned form returns what its borrowing form returns on the same
\* input: a sequence of the same length with the same text in every
\* position, and a failure exactly where the borrowing form fails.
C8_OwnedEqualsBorrowing ==
    /\ op = "split_on_delimiters_returns_owned" =>
           result = split_on_delimiters(input, delimiters)
    /\ op = "split_keeping_delimiter_returns_owned" =>
           result = split_keeping_delimiter(input, delimiter)
    /\ op = "split_into_n_parts_returns_owned" =>
           result = split_into_n_parts(input, delimiter, n)

\* an owned call that returned two segments, the second cut from the end of
\* the text, both holding a multi-byte scalar value
C8_Witness ==
    /\ op = "split_on_delimiters_returns_owned"
    /\ ~result.panic
    /\ Len(result.val) = 2
    /\ \A k \in 1..2 : Len(result.val[k]) > 1

\* C9: check_for_palindrome(T) is true exactly when T without its
\* non-alphanumeric scalar values equals its own reversal under
\* case-insensitive comparison of scalar values, for every cased letter and
\* not only the ASCII ones.
C9_CaseInsensitivePalindrome ==
    op = "check_for_palindrome" =>
        LET cleaned == filter_alphanumeric(chars(input))
            folded  == [k \in 1..Len(cleaned) |-> LowerCase(cleaned[k])]
        IN  palindrome = IsReversalOf(folded, folded)

\* C10: string_reverse(T) holds the scalar values of T in reversed order
\* (not its bytes), and string_reverse(string_reverse(T)) = T.
C10_ReversesScalarValuesAndInvolutes ==
    op = "string_reverse" =>
        /\ flips = 1 => IsReversalOf(chars(text), chars(input))
        /\ flips = 0 => text = input

\* two calls on a text that holds a multi-byte scalar value and is not its
\* own reversal
C10_Witness ==
    /\ op = "string_reverse"
    /\ flips = 0
    /\ Len(input) > Len(chars(input))
    /\ ~IsReversalOf(chars(input), chars(input))
    /\ text = input

====
